---- MODULE Spec2Model ----
(***************************************************************************)
(* Model of the acquisition and reading layers of isd_lite_data:           *)
(*   ncei.download_file      one HEAD request, the ETag comparison with    *)
(*                           the sidecar file, the streamed GET and the    *)
(*                           sidecar write;                                *)
(*   ncei.download_threaded  the ThreadPoolExecutor fan-out over           *)
(*                           (url, path) pairs;                            *)
(*   ncei.download_many      one download_threaded batch per year;         *)
(*   ncei.isdlite_data_url, ISDLite_data_file_name, isdlite_data_urls;     *)
(*   stations.Stations.filter_by_data_availability (directory listings)    *)
(*   and data.Stations.filter_by_data_availability (one probe per row);    *)
(*   stations.Stations.read_station_observations and load_observations.    *)
(* Spec       : a caller issuing download_file calls one after another on  *)
(*              one URL and one local path while the remote resource may   *)
(*              change and the user may remove the payload file.           *)
(* SpecBatch  : one download_threaded call over a list of URLs and paths.  *)
(* SpecHang   : SpecBatch with a server that may never answer a request.   *)
(* SpecMany   : one download_many call over a year range and a station     *)
(*              list.                                                      *)
(* SpecDefault: SpecMany for a caller that does not choose n_jobs.         *)
(* SpecRerun  : download_many run twice over the same batch.               *)
(* SpecNames  : the file-name and URL functions applied to two keys.       *)
(* SpecBulk   : the listing-based availability filter.                     *)
(* SpecProbe  : the listing-based filter followed by the threaded filter   *)
(*              over the same station table and period.                    *)
(* SpecRead   : one read_station_observations call for one station.        *)
(* SpecLoad   : one load_observations call over a station table.           *)
(***************************************************************************)
EXTENDS Integers, Sequences, FiniteSets, TLC

\* ------------------------------------------------------------------ bounds
\* Number of versions the remote resource can take (0 = resource absent).
MaxVersion == 2
\* Number of download_file calls the sequential caller issues.
MaxCalls == 3
\* Largest batch handed to download_threaded.
MaxItems == 3
\* Largest n_jobs handed to download_threaded.
MaxJobs == 2
\* Last year of the year ranges handed to download_many.
MaxYear == 10
\* Longest station-id list handed to download_many.
MaxStations == 2
\* Largest os.cpu_count() of the machines considered.
MaxCpus == 5
\* Largest number of files (stations times years) one download_many call covers.
MaxFiles == 4
\* Longest station code the file-name functions are applied to.
MaxCodeLen == 2
\* Rows held by the files of data_dir in total.
MaxRecords == 3
\* Hours the rows of the files are stamped with.
MaxTime == 2

VARIABLES
    remote,     \* [url -> version served by the server, 0 when absent]
    payload,    \* [path -> the file at local_file_path]
    sidecar,    \* [path -> the file at local_file_path + '.etag']
    th,         \* [thread -> the download_file activation it runs]
    prev,       \* Spec: the activation of the call before the current one
    calls,      \* Spec: number of download_file calls issued so far
    urls,       \* SpecBatch: argument urls of download_threaded
    paths,      \* SpecBatch: argument paths of download_threaded
    n_jobs,     \* SpecBatch: argument n_jobs
    refresh,    \* SpecBatch: argument refresh
    dt,         \* SpecBatch: position of download_threaded
    futures,    \* SpecBatch: the list futures, in submission order
    queue,      \* SpecBatch: work items the executor has not started yet
    attempts,   \* SpecBatch: [item -> number of download_file calls made for it]
    reported,   \* SpecBatch: [item -> number of "Download generated an exception" lines]
    cpu_count,  \* os.cpu_count() of the machine
    max_workers,\* _max_workers of the executor download_threaded created last
    ids,        \* SpecMany: argument ids of download_many
    start_year, \* SpecMany: argument start_year
    end_year,   \* SpecMany: argument end_year
    year,       \* SpecMany: loop variable year of download_many
    dm,         \* SpecMany: position of download_many
    all_local_file_paths,   \* SpecMany: the list download_many accumulates
    batchYears, \* SpecMany: the years download_threaded was called for, in call order
    run,        \* SpecRerun: 1 in the first download_many call, 2 in the second
    firstRun,   \* SpecRerun: the futures of the first call, in the order of its result
    runLog,     \* SpecMany: the futures of the current call, in the order of its result
    keyA,       \* SpecNames: a key (year, usaf_id, wban_id)
    keyB,       \* SpecNames: a second key
    names,      \* SpecNames: the file names and URLs built for keyA and keyB
    listing,    \* SpecBulk: [year -> response of the server to the listing request]
    all_file_urls,  \* SpecBulk: the set file_urls isdlite_data_urls collects
    bf,         \* SpecBulk: position of stations.Stations.filter_by_data_availability
    filtered_rows,  \* SpecBulk: the list filtered_rows of the bulk filter
    probes,     \* SpecProbe: the futures of the check_station calls, in row order
    pf,         \* SpecProbe: position of data.Stations.filter_by_data_availability
    probed_rows,\* SpecProbe: the list filtered_rows of the threaded filter
    missing_value,  \* SpecRead: argument missing_value of read_station_observations
    files,      \* SpecRead: [path -> the ISD-Lite file in data_dir, its rows in file order]
    dfs,        \* SpecLoad: the list dfs of load_observations, one frame per station
    lo,         \* SpecLoad: position of load_observations
    observations    \* SpecLoad: the dataset self.observations

fileVars  == <<remote, payload, sidecar>>
seqVars   == <<prev, calls>>
batchVars == <<urls, paths, n_jobs, refresh, dt, futures, queue, attempts, reported>>
poolVars  == <<cpu_count, max_workers>>
manyVars  == <<ids, start_year, end_year, year, dm, all_local_file_paths, batchYears,
               run, firstRun, runLog>>
nameVars  == <<keyA, keyB, names>>
availVars == <<listing, all_file_urls, bf, filtered_rows, probes, pf, probed_rows>>
obsVars   == <<missing_value, files, dfs, lo, observations>>
vars      == <<remote, payload, sidecar, th, prev, calls,
               urls, paths, n_jobs, refresh, dt, futures, queue, attempts, reported,
               cpu_count, max_workers,
               ids, start_year, end_year, year, dm, all_local_file_paths, batchYears,
               run, firstRun, runLog,
               keyA, keyB, names,
               listing, all_file_urls, bf, filtered_rows, probes, pf, probed_rows,
               missing_value, files, dfs, lo, observations>>

Versions == 1..MaxVersion
Items    == 1..MaxItems
Threads  == 0..MaxJobs        \* 0 is the calling thread, 1.. are pool workers

\* ------------------------------------------------------------ pure helpers
\* The ETag header value the server sends for version v: a string of v
\* characters, so that distinct versions carry distinct tags. An entity-tag
\* carries no surrounding white space.
ETagOf(v) == [i \in 1..v |-> "x"]

\* Number of chunks r.iter_content yields for the body of version v.
BodyChunks(v) == v

Whitespace == {" ", "\t", "\n", "\r"}

RECURSIVE LStrip(_)
LStrip(s) == IF s # <<>> /\ Head(s) \in Whitespace THEN LStrip(Tail(s)) ELSE s

RECURSIVE RStrip(_)
RStrip(s) ==
    IF s # <<>> /\ s[Len(s)] \in Whitespace THEN RStrip(SubSeq(s, 1, Len(s) - 1)) ELSE s

\* str.strip() on the text read from the sidecar.
Strip(s) == RStrip(LStrip(s))

NoPayload == [exists |-> FALSE, ver |-> 0, n |-> 0]
NoSidecar == [exists |-> FALSE, text |-> <<>>]
NoETag    == [some |-> FALSE, text |-> <<>>]

\* The payload file holds the whole body of some version.
Complete(f) == f.exists /\ f.ver \in Versions /\ f.n = BodyChunks(f.ver)

Idle ==
    [pc |-> "idle", item |-> 0, url |-> 0, path |-> 0, refresh |-> FALSE,
     etag |-> NoETag, ver |-> 0, n |-> 0, heads |-> 0, gets |-> 0, out |-> "none",
     env |-> FALSE, prePayload |-> NoPayload, preSidecar |-> NoSidecar]

Succeeded == {"skipped", "downloaded"}
Failed    == {"head_error", "no_etag", "get_error", "bad_status", "interrupted"}

Min(a, b) == IF a < b THEN a ELSE b

\* n_jobs=None, as the command-line scripts pass it when -n is not given.
None == -1

\* The default n_jobs=8 of download_many and download_threaded.
DefaultNJobs == 8

\* ThreadPoolExecutor(max_workers=n): with None the executor takes
\* min(32, (os.cpu_count() or 1) + 4).
MaxWorkers(n) == IF n = None THEN Min(32, cpu_count + 4) ELSE n

\* The values of the variables of download_many while it is not in use.
ManyUnused ==
    /\ ids = <<>>
    /\ start_year = 0
    /\ end_year = 0
    /\ year = 0
    /\ dm = "none"
    /\ all_local_file_paths = <<>>
    /\ batchYears = <<>>
    /\ run = 0
    /\ firstRun = <<>>
    /\ runLog = <<>>

\* The values of the variables of the file-name functions while not in use.
NamesUnused ==
    /\ keyA = <<>>
    /\ keyB = <<>>
    /\ names = <<>>

\* The values of the variables of the availability filters while not in use.
AvailUnused ==
    /\ listing = <<>>
    /\ all_file_urls = {}
    /\ bf = "none"
    /\ filtered_rows = <<>>
    /\ probes = <<>>
    /\ pf = "none"
    /\ probed_rows = <<>>

\* The values of the variables of the observation reader while not in use.
ObsUnused ==
    /\ missing_value = 0
    /\ files = <<>>
    /\ dfs = <<>>
    /\ lo = "none"
    /\ observations = <<>>

\* The values of the variables of the download layer while not in use.
DownloadUnused ==
    /\ payload = <<>>
    /\ sidecar = <<>>
    /\ th = [t \in Threads |-> Idle]
    /\ prev = Idle
    /\ calls = 0
    /\ urls = <<>>
    /\ paths = <<>>
    /\ refresh = FALSE
    /\ dt = "none"
    /\ futures = <<>>
    /\ queue = <<>>
    /\ attempts = [i \in Items |-> 0]
    /\ reported = [i \in Items |-> 0]

\* ----------------------------------------------------------- download_file
\* Entry of download_file(url, local_file_path, refresh) on thread t.
Activation(i, u, p, r) ==
    [Idle EXCEPT !.pc = "head", !.item = i, !.url = u, !.path = p, !.refresh = r,
                 !.prePayload = payload[p], !.preSidecar = sidecar[p]]

\* download_file leaves by return or by an exception.
Leave(t, outcome) == th' = [th EXCEPT ![t].pc = "done", ![t].out = outcome]

\* response.headers.get("ETag") for a resource at version v: None when the
\* server has no such resource.
ResponseETag(v) ==
    IF v = 0 THEN NoETag ELSE [some |-> TRUE, text |-> ETagOf(v)]

\* Variant: the missing-ETag check is left out.
RaisesNotFoundNever(etag) == FALSE

\* if etag is None: raise Exception(message)
RaisesNotFound(etag) == ~etag.some

\* response = requests.head(url); etag = response.headers.get("ETag")
HeadRequest(t) ==
    /\ th[t].pc = "head"
    /\ UNCHANGED <<obsVars, nameVars, availVars, fileVars, seqVars, poolVars, manyVars, batchVars>>
    /\ \/ \* the request raises a transport error
          th' = [th EXCEPT ![t].pc = "done", ![t].out = "head_error",
                           ![t].heads = @ + 1]
       \/ LET etag == ResponseETag(remote[th[t].url]) IN
          IF RaisesNotFound(etag)
          THEN th' = [th EXCEPT ![t].pc = "done", ![t].out = "no_etag",
                                ![t].heads = @ + 1, ![t].etag = etag]
          ELSE th' = [th EXCEPT ![t].pc = "check", ![t].heads = @ + 1,
                                ![t].etag = etag]

\* Variant: the refresh flag is not consulted.
SkipsDownloadIgnoresRefresh(r, pay, side, etag) ==
    /\ pay.exists
    /\ side.exists
    /\ [some |-> TRUE, text |-> Strip(side.text)] = etag

\* Variant: only the sidecar is looked for, not the payload file.
SkipsDownloadSidecarOnly(r, pay, side, etag) ==
    /\ ~r
    /\ side.exists
    /\ [some |-> TRUE, text |-> Strip(side.text)] = etag

\* The decision of lines 308-324: TRUE when the call returns without a GET.
SkipsDownload(r, pay, side, etag) ==
    /\ ~r
    /\ pay.exists
    /\ side.exists
    /\ [some |-> TRUE, text |-> Strip(side.text)] = etag

CheckLocal(t) ==
    /\ th[t].pc = "check"
    /\ UNCHANGED <<obsVars, nameVars, availVars, fileVars, seqVars, poolVars, manyVars, batchVars>>
    /\ IF SkipsDownload(th[t].refresh, payload[th[t].path], sidecar[th[t].path],
                        th[t].etag)
       THEN Leave(t, "skipped")
       ELSE th' = [th EXCEPT ![t].pc = "get"]

\* Variant: the payload file is opened for writing before the status of the
\* response is looked at.
GetRequestOpensFirst(t) ==
    /\ th[t].pc = "get"
    /\ UNCHANGED <<obsVars, nameVars, availVars, remote, sidecar, seqVars, poolVars, manyVars, batchVars>>
    /\ \/ /\ th' = [th EXCEPT ![t].pc = "done", ![t].out = "get_error",
                              ![t].gets = @ + 1]
          /\ UNCHANGED payload
       \/ /\ th' = [th EXCEPT ![t].pc = "done", ![t].out = "bad_status",
                              ![t].gets = @ + 1]
          /\ payload' = [payload EXCEPT ![th[t].path] =
                             [exists |-> TRUE, ver |-> 0, n |-> 0]]
       \/ /\ remote[th[t].url] # 0
          /\ th' = [th EXCEPT ![t].pc = "open", ![t].gets = @ + 1,
                              ![t].ver = remote[th[t].url]]
          /\ UNCHANGED payload

\* requests.get(url, stream=True); r.raise_for_status()
GetRequest(t) ==
    /\ th[t].pc = "get"
    /\ UNCHANGED <<obsVars, nameVars, availVars, fileVars, seqVars, poolVars, manyVars, batchVars>>
    /\ \/ th' = [th EXCEPT ![t].pc = "done", ![t].out = "get_error",
                           ![t].gets = @ + 1]
       \/ \* 404 when the resource is gone, 5xx at any time
          th' = [th EXCEPT ![t].pc = "done", ![t].out = "bad_status",
                           ![t].gets = @ + 1]
       \/ /\ remote[th[t].url] # 0
          /\ th' = [th EXCEPT ![t].pc = "open", ![t].gets = @ + 1,
                              ![t].ver = remote[th[t].url]]

\* open(local_file_path, 'wb'): creates or truncates the payload file.
OpenPayload(t) ==
    /\ th[t].pc = "open"
    /\ payload' = [payload EXCEPT ![th[t].path] =
                       [exists |-> TRUE, ver |-> th[t].ver, n |-> 0]]
    /\ th' = [th EXCEPT ![t].pc = "write"]
    /\ UNCHANGED <<obsVars, nameVars, availVars, remote, sidecar, seqVars, poolVars, manyVars, batchVars>>

\* for chunk in r.iter_content(chunk_size=8192): f.write(chunk)
WriteChunk(t) ==
    /\ th[t].pc = "write"
    /\ th[t].n < BodyChunks(th[t].ver)
    /\ payload' = [payload EXCEPT ![th[t].path] =
                       [exists |-> TRUE, ver |-> th[t].ver, n |-> th[t].n + 1]]
    /\ th' = [th EXCEPT ![t].n = @ + 1]
    /\ UNCHANGED <<obsVars, nameVars, availVars, remote, sidecar, seqVars, poolVars, manyVars, batchVars>>

\* The stream breaks before the body is complete: iter_content raises, both
\* with-blocks close, the exception leaves download_file.
Interrupt(t) ==
    /\ th[t].pc = "write"
    /\ th[t].n < BodyChunks(th[t].ver)
    /\ Leave(t, "interrupted")
    /\ UNCHANGED <<obsVars, nameVars, availVars, fileVars, seqVars, poolVars, manyVars, batchVars>>

\* Variant: the tag is written without its first character (the opening quote).
SidecarTextUnquoted(etag) == Tail(etag.text)

\* Variant: the tag is written with a line end after it.
SidecarTextLine(etag) == Append(etag.text, "\n")

\* The text written to the sidecar by a call that fetched `etag`.
SidecarText(etag) == etag.text

\* The chunk loop has ended and the payload file is closed;
\* with open(etag_file_path, "w") as f: f.write(etag)
SaveETag(t) ==
    /\ th[t].pc = "write"
    /\ th[t].n = BodyChunks(th[t].ver)
    /\ sidecar' = [sidecar EXCEPT ![th[t].path] =
                       [exists |-> TRUE, text |-> SidecarText(th[t].etag)]]
    /\ Leave(t, "downloaded")
    /\ UNCHANGED <<obsVars, nameVars, availVars, remote, payload, seqVars, poolVars, manyVars, batchVars>>

DownloadFileStep(t) ==
    \/ HeadRequest(t)
    \/ CheckLocal(t)
    \/ GetRequest(t)
    \/ OpenPayload(t)
    \/ WriteChunk(t)
    \/ Interrupt(t)
    \/ SaveETag(t)

\* --------------------------------------------- Spec: calls one after another
TheUrl  == 1
ThePath == 1

Init ==
    /\ remote \in [Items -> 0..MaxVersion]
    /\ \A u \in Items : u # TheUrl => remote[u] = 0
    /\ payload = [p \in Items |-> NoPayload]
    /\ sidecar = [p \in Items |-> NoSidecar]
    /\ th = [t \in Threads |-> Idle]
    /\ prev = Idle
    /\ calls = 0
    /\ urls = <<>>
    /\ paths = <<>>
    /\ n_jobs = 1
    /\ refresh = FALSE
    /\ dt = "none"
    /\ futures = <<>>
    /\ queue = <<>>
    /\ attempts = [i \in Items |-> 0]
    /\ reported = [i \in Items |-> 0]
    /\ cpu_count = 1
    /\ max_workers = 0
    /\ ManyUnused
    /\ NamesUnused
    /\ ObsUnused
    /\ AvailUnused

\* The caller invokes download_file(url, local_file_path, refresh=r).
Call(r) ==
    /\ th[0].pc = "idle"
    /\ calls < MaxCalls
    /\ calls' = calls + 1
    /\ prev' = th[0]
    /\ th' = [th EXCEPT ![0] = Activation(0, TheUrl, ThePath, r)]
    /\ UNCHANGED <<obsVars, nameVars, availVars, fileVars, batchVars, poolVars, manyVars>>

\* What the caller retains of a finished call: its arguments, its outcome and
\* the requests it issued. The locals of download_file are gone.
Summary(a) ==
    [Idle EXCEPT !.refresh = a.refresh, !.heads = a.heads, !.gets = a.gets,
                 !.out = a.out, !.env = a.env]

\* download_file has returned or raised; control is back in the caller.
Return ==
    /\ th[0].pc = "done"
    /\ th' = [th EXCEPT ![0] = Summary(th[0])]
    /\ UNCHANGED <<obsVars, nameVars, availVars, fileVars, seqVars, poolVars, manyVars, batchVars>>

\* The provider replaces, removes or restores the resource.
RemoteChange(v) ==
    /\ v # remote[TheUrl]
    /\ remote' = [remote EXCEPT ![TheUrl] = v]
    /\ th' = [th EXCEPT ![0].env = TRUE]
    /\ UNCHANGED <<obsVars, nameVars, availVars, payload, sidecar, seqVars, poolVars, manyVars, batchVars>>

\* The user removes the payload file between two calls.
UnlinkPayload ==
    /\ th[0].pc = "idle"
    /\ payload[ThePath].exists
    /\ payload' = [payload EXCEPT ![ThePath] = NoPayload]
    /\ th' = [th EXCEPT ![0].env = TRUE]
    /\ UNCHANGED <<obsVars, nameVars, availVars, remote, sidecar, seqVars, poolVars, manyVars, batchVars>>

Next ==
    \/ \E r \in BOOLEAN : Call(r)
    \/ DownloadFileStep(0)
    \/ Return
    \/ \E v \in 0..MaxVersion : RemoteChange(v)
    \/ UnlinkPayload

Spec == Init /\ [][Next]_vars

\* ------------------------------------------------- SpecBatch: download_threaded
NewFuture == [state |-> "pending", out |-> "none", gets |-> 0, collected |-> FALSE]

InitBatch ==
    /\ \E nu \in 0..MaxItems, np \in 0..MaxItems :
          /\ urls = [i \in 1..nu |-> i]
          /\ paths = [i \in 1..np |-> i]
          /\ \E gone \in 0..nu : remote = [u \in Items |-> IF gone < u /\ u <= nu THEN 1 ELSE 0]
    /\ n_jobs \in 1..MaxJobs
    /\ refresh \in BOOLEAN
    /\ payload = [p \in Items |-> NoPayload]
    /\ sidecar = [p \in Items |-> NoSidecar]
    /\ th = [t \in Threads |-> Idle]
    /\ prev = Idle
    /\ calls = 0
    /\ dt = "start"
    /\ futures = <<>>
    /\ queue = <<>>
    /\ attempts = [i \in Items |-> 0]
    /\ reported = [i \in Items |-> 0]
    /\ cpu_count = 1
    /\ max_workers = 0
    /\ ManyUnused
    /\ NamesUnused
    /\ ObsUnused
    /\ AvailUnused

\* Variant: the length comparison is left out and zip truncates silently.
CheckLengthsMissing ==
    /\ dt = "start"
    /\ dt' = "submit"
    /\ max_workers' = MaxWorkers(n_jobs)
    /\ UNCHANGED <<obsVars, nameVars, availVars,
                   fileVars, th, seqVars, cpu_count, manyVars, urls, paths, n_jobs, refresh, futures,
                   queue, attempts, reported>>

\* if len(urls) != len(paths): raise ValueError(...)
\* with ThreadPoolExecutor(max_workers=n_jobs) as executor:
CheckLengths ==
    /\ dt = "start"
    /\ IF Len(urls) # Len(paths)
       THEN dt' = "raised" /\ UNCHANGED max_workers
       ELSE dt' = "submit" /\ max_workers' = MaxWorkers(n_jobs)
    /\ UNCHANGED <<obsVars, nameVars, availVars,
                   fileVars, th, seqVars, cpu_count, manyVars, urls, paths, n_jobs, refresh, futures,
                   queue, attempts, reported>>

\* One executor.submit(download_file, url, path, refresh, verbose) of the list
\* comprehension over zip(urls, paths, strict=False).
Submit ==
    /\ dt = "submit"
    /\ Len(futures) < Min(Len(urls), Len(paths))
    /\ futures' = Append(futures, NewFuture)
    /\ queue' = Append(queue, Len(futures) + 1)
    /\ UNCHANGED <<obsVars, nameVars, availVars,
                   fileVars, th, seqVars, poolVars, manyVars, urls, paths, n_jobs, refresh, dt,
                   attempts, reported>>

\* The list comprehension is exhausted; as_completed(futures) starts.
SubmitDone ==
    /\ dt = "submit"
    /\ Len(futures) = Min(Len(urls), Len(paths))
    /\ dt' = "collect"
    /\ UNCHANGED <<obsVars, nameVars, availVars,
                   fileVars, th, seqVars, poolVars, manyVars, urls, paths, n_jobs, refresh, futures,
                   queue, attempts, reported>>

\* Variant: the pool is created without max_workers=n_jobs.
WorkersUnbounded == 1..MaxJobs

\* The worker threads the executor may run: at most _max_workers of them.
Workers == 1..max_workers

\* An idle pool worker takes the oldest work item and calls download_file.
\* The workers are interchangeable: the idle one with the least number runs.
WorkerTake(t) ==
    /\ t \in Workers
    /\ th[t].pc = "idle"
    /\ \A w \in Workers : w < t => th[w].pc # "idle"
    /\ queue # <<>>
    /\ LET i == Head(queue) IN
          /\ th' = [th EXCEPT ![t] = Activation(i, urls[i], paths[i], refresh)]
          /\ futures' = [futures EXCEPT ![i].state = "running"]
          /\ attempts' = [attempts EXCEPT ![i] = @ + 1]
    /\ queue' = Tail(queue)
    /\ UNCHANGED <<obsVars, nameVars, availVars,
                   fileVars, seqVars, poolVars, manyVars, urls, paths, n_jobs, refresh, dt, reported>>

\* The worker stores the result or the exception of download_file in the future.
SetResult(t) ==
    /\ t \in Workers
    /\ th[t].pc = "done"
    /\ futures' = [futures EXCEPT ![th[t].item] =
                       [state |-> "finished", out |-> th[t].out, gets |-> th[t].gets,
                        collected |-> FALSE]]
    /\ th' = [th EXCEPT ![t] = Idle]
    /\ UNCHANGED <<obsVars, nameVars, availVars,
                   fileVars, seqVars, poolVars, manyVars, urls, paths, n_jobs, refresh, dt, queue,
                   attempts, reported>>

\* Variant: except requests.HTTPError instead of except Exception.
ReportLinesHTTPOnly(out) == IF out = "bad_status" THEN 1 ELSE 0

\* Lines printed by the except clause for a future whose result() gave `out`.
ReportLines(out) == IF out \in Failed THEN 1 ELSE 0

\* for future in as_completed(futures): try: future.result() except Exception: print
Collect(i) ==
    /\ dt = "collect"
    /\ i \in 1..Len(futures)
    /\ futures[i].state = "finished"
    /\ ~futures[i].collected
    /\ futures' = [futures EXCEPT ![i].collected = TRUE]
    /\ reported' = [reported EXCEPT ![i] = @ + ReportLines(futures[i].out)]
    /\ UNCHANGED <<obsVars, nameVars, availVars,
                   fileVars, th, seqVars, poolVars, manyVars, urls, paths, n_jobs, refresh, dt, queue,
                   attempts>>

\* as_completed is exhausted and the with-block's shutdown(wait=True) has
\* joined the workers: download_threaded returns.
Shutdown ==
    /\ dt = "collect"
    /\ \A i \in 1..Len(futures) : futures[i].collected
    /\ queue = <<>>
    /\ \A t \in Threads : th[t].pc = "idle"
    /\ dt' = "returned"
    /\ UNCHANGED <<obsVars, nameVars, availVars,
                   fileVars, th, seqVars, poolVars, manyVars, urls, paths, n_jobs, refresh, futures,
                   queue, attempts, reported>>

NextBatch ==
    \/ CheckLengths
    \/ Submit
    \/ SubmitDone
    \/ \E t \in 1..MaxJobs : WorkerTake(t)
    \/ \E t \in 1..MaxJobs : DownloadFileStep(t)
    \/ \E t \in 1..MaxJobs : SetResult(t)
    \/ \E i \in Items : Collect(i)
    \/ Shutdown

SpecBatch == InitBatch /\ [][NextBatch]_vars

\* ------------------------------- SpecHang: a server that may never answer
\* requests.head(url) and requests.get(url, stream=True) are called without
\* timeout=, and so is the read behind iter_content: when the server sends
\* nothing the call never returns and the worker stays in it.
NoAnswer(t) ==
    /\ \/ th[t].pc \in {"head", "get"}
       \/ th[t].pc = "write" /\ th[t].n < BodyChunks(th[t].ver)
    /\ th' = [th EXCEPT ![t].pc = "blocked"]
    /\ UNCHANGED <<obsVars, nameVars, availVars, fileVars, seqVars, poolVars, manyVars, batchVars>>

NextHang ==
    \/ NextBatch
    \/ \E t \in 1..MaxJobs : NoAnswer(t)

SpecHang == InitBatch /\ [][NextHang]_vars

\* ------------------------------------------------ file names, URLs and paths
\* One decimal digit as str() prints it.
Digit(d) ==
    CASE d = 0 -> "0" [] d = 1 -> "1" [] d = 2 -> "2" [] d = 3 -> "3" [] d = 4 -> "4"
      [] d = 5 -> "5" [] d = 6 -> "6" [] d = 7 -> "7" [] d = 8 -> "8" [] d = 9 -> "9"

\* str(year) for a non-negative year: its decimal digits, most significant first.
RECURSIVE Str(_)
Str(n) == IF n < 10 THEN <<Digit(n)>> ELSE Str(n \div 10) \o <<Digit(n % 10)>>

\* Variant: the three parts of the name are joined without the '-' separators.
ISDLite_data_file_nameUnseparated(y, usaf_id, wban_id) ==
    usaf_id \o wban_id \o Str(y) \o <<".gz">>

\* Variant: the WBAN code is left out of the name.
ISDLite_data_file_nameNoWban(y, usaf_id, wban_id) ==
    usaf_id \o <<"-">> \o Str(y) \o <<".gz">>

\* file_name = usaf_id + '-' + wban_id + '-' + str(year) + '.gz'
\* A string is the sequence of its characters; ".gz" is kept as one token.
ISDLite_data_file_name(y, usaf_id, wban_id) ==
    usaf_id \o <<"-">> \o wban_id \o <<"-">> \o Str(y) \o <<".gz">>

\* The module constant isd_lite_url: scheme, host, then the path with one
\* token per '/' and per name.
isd_lite_url ==
    <<"https://", "www.ncei.noaa.gov", "/", "pub", "/", "data", "/", "noaa", "/", "isd-lite">>

\* str.rstrip('/')
RECURSIVE RStripSlash(_)
RStripSlash(s) ==
    IF s # <<>> /\ s[Len(s)] = "/" THEN RStripSlash(SubSeq(s, 1, Len(s) - 1)) ELSE s

\* isd_lite_url.rstrip('/') + '/' + str(year) + '/' + ISDLite_data_file_name(...)
isdlite_data_url(y, usaf_id, wban_id) ==
    RStripSlash(isd_lite_url) \o <<"/">> \o Str(y) \o <<"/">>
        \o ISDLite_data_file_name(y, usaf_id, wban_id)

\* The part of a URL after its last '/'.
RECURSIVE LastSegment(_)
LastSegment(s) ==
    IF s = <<>> \/ s[Len(s)] = "/" THEN <<>>
    ELSE Append(LastSegment(SubSeq(s, 1, Len(s) - 1)), s[Len(s)])

\* The argument local_dir of download_many.
local_dir == <<"data">>

\* local_dir / file_name
LocalPath(file_name) == local_dir \o <<"/">> \o file_name

\* ------------------------------------- SpecNames: the file-name functions
\* The characters station codes are made of: a digit and a letter.
CodeChars == {"1", "A"}

\* The station codes: non-empty strings of digits and letters.
Codes == UNION {[1..n -> CodeChars] : n \in 1..MaxCodeLen}

\* The arguments (year, usaf_id, wban_id) of the file-name functions.
Keys == [year : {MaxYear - 1, MaxYear}, usaf_id : Codes, wban_id : Codes]

InitNames ==
    /\ keyA \in Keys
    /\ keyB \in Keys
    /\ names = <<>>
    /\ remote = <<>>
    /\ n_jobs = 1
    /\ cpu_count = 1
    /\ max_workers = 0
    /\ DownloadUnused
    /\ ManyUnused
    /\ AvailUnused
    /\ ObsUnused

\* The caller builds the file name and the URL of both keys.
BuildNames ==
    /\ names = <<>>
    /\ names' = << ISDLite_data_file_name(keyA.year, keyA.usaf_id, keyA.wban_id),
                   ISDLite_data_file_name(keyB.year, keyB.usaf_id, keyB.wban_id),
                   isdlite_data_url(keyA.year, keyA.usaf_id, keyA.wban_id),
                   isdlite_data_url(keyB.year, keyB.usaf_id, keyB.wban_id) >>
    /\ UNCHANGED <<obsVars, keyA, keyB, availVars, fileVars, th, seqVars, poolVars, manyVars, batchVars>>

NextNames == BuildNames

SpecNames == InitNames /\ [][NextNames]_vars

\* --------------------------------------------------- SpecMany: download_many
\* The (USAF, WBAN) pairs the callers draw their station lists from.
StationIds == { <<<<"1">>, <<"2", "3">>>>, <<<<"1", "2">>, <<"3">>>> }

\* The years the callers draw start_year and end_year from.
Years == {MaxYear - 1, MaxYear}

\* The station lists a caller can pass: any list, repetitions included.
IdLists == UNION {[1..n -> StationIds] : n \in 0..MaxStations}

AllUrls  == {isdlite_data_url(y, s[1], s[2]) : y \in Years, s \in StationIds}
AllPaths == {LocalPath(ISDLite_data_file_name(y, s[1], s[2])) : y \in Years, s \in StationIds}

\* The list urls download_many builds for year y.
BatchUrls(y) == [k \in 1..Len(ids) |-> isdlite_data_url(y, ids[k][1], ids[k][2])]

\* The list local_file_paths download_many builds for year y.
BatchPaths(y) ==
    [k \in 1..Len(ids) |-> LocalPath(ISDLite_data_file_name(y, ids[k][1], ids[k][2]))]

\* The state in which download_many is entered, its arguments n_jobs and
\* refresh and the local directory apart: the server holds every file.
ManyStart ==
    /\ ids \in IdLists
    /\ start_year \in Years
    /\ end_year \in Years
    /\ Len(ids) * Cardinality(start_year..end_year) <= MaxFiles
    /\ year = start_year
    /\ dm = "loop"
    /\ remote = [u \in AllUrls |-> 1]
    /\ th = [t \in Threads |-> Idle]
    /\ prev = Idle
    /\ calls = 0
    /\ urls = <<>>
    /\ paths = <<>>
    /\ dt = "none"
    /\ futures = <<>>
    /\ queue = <<>>
    /\ attempts = [i \in Items |-> 0]
    /\ reported = [i \in Items |-> 0]
    /\ max_workers = 0
    /\ all_local_file_paths = <<>>
    /\ batchYears = <<>>
    /\ firstRun = <<>>
    /\ runLog = <<>>
    /\ NamesUnused
    /\ ObsUnused
    /\ AvailUnused

\* The local directory holds no file.
EmptyCache ==
    /\ payload = [p \in AllPaths |-> NoPayload]
    /\ sidecar = [p \in AllPaths |-> NoSidecar]

\* download_many(start_year, end_year, ids, local_dir, n_jobs=n) with n given.
InitMany ==
    /\ n_jobs \in 1..MaxJobs
    /\ cpu_count = 1
    /\ refresh = FALSE
    /\ EmptyCache
    /\ run = 0
    /\ ManyStart

\* download_many called without n_jobs, or with n_jobs=None as
\* build_isd_lite_dataset.main does when -n is not on the command line.
InitDefault ==
    /\ n_jobs \in {DefaultNJobs, None}
    /\ cpu_count \in {1, MaxCpus}
    /\ refresh = FALSE
    /\ EmptyCache
    /\ run = 0
    /\ ManyStart

\* The body of "for year in range(...)" up to the call of download_threaded.
CallThreaded ==
    /\ dm = "loop"
    /\ dt = "none"
    /\ year <= end_year
    /\ urls' = BatchUrls(year)
    /\ paths' = BatchPaths(year)
    /\ dt' = "start"
    /\ batchYears' = Append(batchYears, year)
    /\ UNCHANGED <<obsVars, nameVars, availVars,
                   fileVars, th, seqVars, poolVars, n_jobs, refresh, futures, queue,
                   attempts, reported, ids, start_year, end_year, year, dm,
                   all_local_file_paths, run, firstRun, runLog>>

\* Variant: the loop advances by two years.
NextYearSkips(y) == y + 2

\* The value range() gives the loop variable after y.
NextYear(y) == y + 1

\* download_threaded has returned and its locals are gone;
\* all_local_file_paths = all_local_file_paths + local_file_paths.
\* While run > 0 the outcomes of the batch are kept in runLog.
AfterThreaded ==
    /\ dm = "loop"
    /\ dt = "returned"
    /\ all_local_file_paths' = all_local_file_paths \o paths
    /\ runLog' = IF run > 0 THEN runLog \o futures ELSE runLog
    /\ year' = NextYear(year)
    /\ dt' = "none"
    /\ futures' = <<>>
    /\ attempts' = [i \in Items |-> 0]
    /\ reported' = [i \in Items |-> 0]
    /\ UNCHANGED <<obsVars, nameVars, availVars,
                   fileVars, th, seqVars, poolVars, urls, paths, n_jobs, refresh, queue,
                   ids, start_year, end_year, dm, batchYears, run, firstRun>>

\* range(start_year, end_year + 1) is exhausted: return all_local_file_paths.
ReturnMany ==
    /\ dm = "loop"
    /\ dt = "none"
    /\ year > end_year
    /\ dm' = "returned"
    /\ UNCHANGED <<obsVars, nameVars, availVars,
                   fileVars, th, seqVars, poolVars, batchVars, ids, start_year, end_year,
                   year, all_local_file_paths, batchYears, run, firstRun, runLog>>

NextMany ==
    \/ CallThreaded
    \/ NextBatch
    \/ AfterThreaded
    \/ ReturnMany

SpecMany == InitMany /\ [][NextMany]_vars

SpecDefault == InitDefault /\ [][NextMany]_vars

\* ------------------------------------------- SpecRerun: download_many, twice
\* What the local directory can hold for one file before the first call:
\* nothing, the file as an earlier successful download left it, or the
\* sidecar of such a download whose payload the user has removed since.
CacheStates == {"empty", "cached", "unlinked"}

CachedPayload(c) ==
    IF c = "cached" THEN [exists |-> TRUE, ver |-> 1, n |-> BodyChunks(1)] ELSE NoPayload

CachedSidecar(c) ==
    IF c = "empty" THEN NoSidecar ELSE [exists |-> TRUE, text |-> SidecarText(ResponseETag(1))]

\* The first of two download_many calls over one year and a station list that
\* names no station twice.
InitRerun ==
    /\ n_jobs \in 1..MaxJobs
    /\ cpu_count = 1
    /\ refresh \in BOOLEAN
    /\ run = 1
    /\ ManyStart
    /\ start_year = end_year
    /\ \A j \in 1..Len(ids), k \in 1..Len(ids) : j # k => ids[j] # ids[k]
    /\ \E c \in [AllPaths -> CacheStates] :
          /\ \A p \in AllPaths :
                 c[p] # "empty" => \E k \in 1..Len(ids) : BatchPaths(start_year)[k] = p
          /\ payload = [p \in AllPaths |-> CachedPayload(c[p])]
          /\ sidecar = [p \in AllPaths |-> CachedSidecar(c[p])]

\* The first call has returned; the caller runs the same batch again with
\* refresh=False.
Rerun ==
    /\ dm = "returned"
    /\ run = 1
    /\ run' = 2
    /\ firstRun' = runLog
    /\ runLog' = <<>>
    /\ refresh' = FALSE
    /\ year' = start_year
    /\ dm' = "loop"
    /\ all_local_file_paths' = <<>>
    /\ batchYears' = <<>>
    /\ UNCHANGED <<obsVars, nameVars, availVars,
                   fileVars, th, seqVars, poolVars, urls, paths, n_jobs, dt, futures, queue,
                   attempts, reported, ids, start_year, end_year>>

NextRerun ==
    \/ NextMany
    \/ Rerun

SpecRerun == InitRerun /\ [][NextRerun]_vars

\* ------------------------------------------- isdlite_data_urls: the listings
\* year_dir = f"{isd_lite_url_}/{year}/"
YearDir(y) == RStripSlash(isd_lite_url) \o <<"/">> \o Str(y) \o <<"/">>

\* urlparse(url).scheme, .netloc and .path of a URL in tokens.
Scheme(u) == u[1]

Netloc(u) == u[2]

RECURSIVE UpToQuery(_)
UpToQuery(s) ==
    IF s = <<>> \/ Head(s) = "?" THEN <<>> ELSE <<Head(s)>> \o UpToQuery(Tail(s))

UrlPath(u) == UpToQuery(SubSeq(u, 3, Len(u)))

\* p._replace(params="", query="", fragment="").geturl()
StripQuery(u) == UpToQuery(u)

StartsWith(s, prefix) ==
    Len(s) >= Len(prefix) /\ SubSeq(s, 1, Len(prefix)) = prefix

\* The directory path `out` without its last segment.
RECURSIVE DropSegment(_)
DropSegment(out) ==
    IF out = <<>> THEN <<"/">>
    ELSE IF out[Len(out)] = "/" THEN out
    ELSE DropSegment(SubSeq(out, 1, Len(out) - 1))

\* Resolution of the ".." segments of a path, as urljoin does it.
RECURSIVE RemoveDotSegments(_, _)
RemoveDotSegments(rest, out) ==
    IF rest = <<>> THEN out
    ELSE IF Head(rest) = ".."
    THEN LET after == IF Len(rest) >= 2 /\ rest[2] = "/" THEN SubSeq(rest, 3, Len(rest))
                      ELSE Tail(rest)
             dir   == IF out # <<>> /\ out[Len(out)] = "/" THEN SubSeq(out, 1, Len(out) - 1)
                      ELSE out
         IN  RemoveDotSegments(after, DropSegment(dir))
    ELSE RemoveDotSegments(Tail(rest), Append(out, Head(rest)))

\* The schemes in which the links of a listing are written.
Schemes == {"https://", "http://", "ftp://"}

\* urljoin(base, href) for a base that is a directory URL.
UrlJoin(base, href) ==
    IF Head(href) \in Schemes THEN href
    ELSE IF Head(href) = "?" THEN base \o href
    ELSE IF Head(href) = "/" THEN <<Scheme(base), Netloc(base)>> \o RemoveDotSegments(href, <<>>)
    ELSE <<Scheme(base), Netloc(base)>> \o RemoveDotSegments(UrlPath(base) \o href, <<>>)

\* The anchors of the index page of year y: one relative link per file the
\* server holds for that year, the parent and root links, a subdirectory, a
\* column-sort link, and links to the files of the other years and to copies
\* on another host or under another scheme.
ListingBody(y) ==
    {ISDLite_data_file_name(y, s[1], s[2]) :
         s \in {x \in StationIds : remote[isdlite_data_url(y, x[1], x[2])] # 0}}
    \cup {<<"..", "/">>, <<"/">>, <<"sub", "/">>, <<"?", "C=N;O=D">>}
    \cup {<<"..", "/">> \o Str(y2) \o <<"/">> \o ISDLite_data_file_name(y2, s[1], s[2]) :
              y2 \in Years \ {y}, s \in StationIds}
    \cup {<<"https://", "mirror.example.org">> \o UrlPath(isdlite_data_url(y, s[1], s[2])) :
              s \in StationIds}
    \cup {<<"ftp://", Netloc(isd_lite_url)>> \o UrlPath(isdlite_data_url(y, s[1], s[2])) :
              s \in StationIds}

\* What the server can answer to the request for a year directory: the index
\* page, nothing (the request raises requests.RequestException), the page
\* under an error status, or the page under another content type.
Responses ==
    { [exc |-> FALSE, status_code |-> 200, html |-> TRUE],
      [exc |-> TRUE,  status_code |-> 0,   html |-> FALSE],
      [exc |-> FALSE, status_code |-> 404, html |-> TRUE],
      [exc |-> FALSE, status_code |-> 200, html |-> FALSE] }

\* Variant: status and content type of the response are not looked at.
ListingUsableAnyResponse(resp) == ~resp.exc

\* The request did not raise, and neither
\* resp.status_code >= 400 nor "text/html" not in content_type.
ListingUsable(resp) == ~resp.exc /\ ~(resp.status_code >= 400 \/ ~resp.html)

\* Variant: the path of a link is not compared with the year directory.
InYearDirUnchecked(u, y) == TRUE

\* p.path.startswith(year_path_prefix)
InYearDir(u, y) == StartsWith(UrlPath(u), UrlPath(YearDir(y)))

\* The link passes the continue-statements of the href loop.
HrefAccepted(y, href) ==
    /\ href \notin {<<"..", "/">>, <<"/">>}
    /\ href[Len(href)] # "/"
    /\ LET u == UrlJoin(YearDir(y), href) IN
          /\ Scheme(u) \in {"http://", "https://"}
          /\ Netloc(u) = Netloc(YearDir(y))
          /\ InYearDir(u, y)

\* The URLs one pass of the year loop adds to file_urls.
YearUrls(y) ==
    IF ListingUsable(listing[y])
    THEN {StripQuery(UrlJoin(YearDir(y), href)) :
              href \in {h \in ListingBody(y) : HrefAccepted(y, h)}}
    ELSE {}

\* --------------------- SpecBulk: stations.Stations.filter_by_data_availability
\* The bulk filter is entered: the rows of self.meta_data are ids, the years
\* of start_time and end_time are start_year and end_year.
BulkStart ==
    /\ ids \in IdLists
    /\ start_year \in Years
    /\ end_year \in Years
    /\ Len(ids) * Cardinality(start_year..end_year) <= MaxFiles
    /\ year = start_year
    /\ remote \in [AllUrls -> {0, 1}]
    /\ all_file_urls = {}
    /\ bf = "listing"
    /\ filtered_rows = <<>>
    /\ probes = <<>>
    /\ pf = "none"
    /\ probed_rows = <<>>
    /\ dm = "none"
    /\ all_local_file_paths = <<>>
    /\ batchYears = <<>>
    /\ run = 0
    /\ firstRun = <<>>
    /\ runLog = <<>>
    /\ n_jobs = 1
    /\ cpu_count = 1
    /\ max_workers = 0
    /\ DownloadUnused
    /\ NamesUnused
    /\ ObsUnused

InitBulk ==
    /\ listing \in [Years -> Responses]
    /\ BulkStart

\* if end_year < start_year: raise ValueError(...)
CheckRange ==
    /\ bf = "listing"
    /\ end_year < start_year
    /\ bf' = "raised"
    /\ UNCHANGED <<obsVars, nameVars, fileVars, th, seqVars, poolVars, manyVars, batchVars,
                   listing, all_file_urls, filtered_rows, probes, pf, probed_rows>>

\* One pass of "for year in range(start_year, end_year + 1)" of
\* isdlite_data_urls: the request, the checks of the response, the href loop.
FetchListing ==
    /\ bf = "listing"
    /\ start_year <= year /\ year <= end_year
    /\ all_file_urls' = all_file_urls \cup YearUrls(year)
    /\ year' = NextYear(year)
    /\ UNCHANGED <<obsVars, nameVars, fileVars, th, seqVars, poolVars, batchVars,
                   ids, start_year, end_year, dm, all_local_file_paths, batchYears, run,
                   firstRun, runLog,
                   listing, bf, filtered_rows, probes, pf, probed_rows>>

\* Variant: the flag is assigned at every year instead of only cleared.
RECURSIVE ObservationsFilesAvailableLastYear(_, _, _, _)
ObservationsFilesAvailableLastYear(row, y, available, file_urls) ==
    IF y > end_year THEN available
    ELSE ObservationsFilesAvailableLastYear(row, y + 1,
             isdlite_data_url(y, row[1], row[2]) \in file_urls, file_urls)

\* observations_files_available after the year loop of one row, which began
\* at year y with the flag at `available`.
RECURSIVE ObservationsFilesAvailable(_, _, _, _)
ObservationsFilesAvailable(row, y, available, file_urls) ==
    IF y > end_year THEN available
    ELSE ObservationsFilesAvailable(row, y + 1,
             IF isdlite_data_url(y, row[1], row[2]) \notin file_urls THEN FALSE
             ELSE available, file_urls)

\* filtered_rows after the loop over the rows from row k on; a row is named
\* by its position in self.meta_data.
RECURSIVE FilteredRows(_, _, _)
FilteredRows(k, rows, file_urls) ==
    IF k > Len(ids) THEN rows
    ELSE FilteredRows(k + 1,
             IF ObservationsFilesAvailable(ids[k], start_year, TRUE, file_urls)
             THEN Append(rows, k) ELSE rows,
             file_urls)

\* isdlite_data_urls returns sorted(file_urls); the filter runs its loop over
\* the rows and returns Stations(meta_data).
FilterRows ==
    /\ bf = "listing"
    /\ start_year <= end_year
    /\ year > end_year
    /\ filtered_rows' = FilteredRows(1, <<>>, all_file_urls)
    /\ bf' = "returned"
    /\ UNCHANGED <<obsVars, nameVars, fileVars, th, seqVars, poolVars, manyVars, batchVars,
                   listing, all_file_urls, probes, pf, probed_rows>>

NextBulk ==
    \/ CheckRange
    \/ FetchListing
    \/ FilterRows

SpecBulk == InitBulk /\ [][NextBulk]_vars

\* ------------------------ SpecProbe: data.Stations.filter_by_data_availability
\* ncei.check_station(start_year, end_year, usaf_id, wban_id) from year y on:
\* one existence check per year, False at the first year whose file is
\* missing, True when every year exists. The check of year failAt (0: none)
\* ends in a timeout or a transport error, which check_station raises.
RECURSIVE check_station(_, _, _)
check_station(row, y, failAt) ==
    IF y > end_year THEN "True"
    ELSE IF y = failAt THEN "raised"
    ELSE IF remote[isdlite_data_url(y, row[1], row[2])] = 0 THEN "False"
    ELSE check_station(row, y + 1, failAt)

\* A caller that runs the bulk filter and then the threaded filter over the
\* same table and period; every year directory answers with its index page.
InitProbe ==
    /\ listing = [y \in Years |-> [exc |-> FALSE, status_code |-> 200, html |-> TRUE]]
    /\ BulkStart

NewProbe == [state |-> "pending", res |-> "none", collected |-> FALSE]

\* with ThreadPoolExecutor(max_workers=n_jobs) as executor: future_to_row =
\* {executor.submit(ncei.check_station, ...): row for each row}
SubmitProbes ==
    /\ bf \in {"returned", "raised"}
    /\ pf = "none"
    /\ \E n \in 1..MaxJobs :
          /\ n_jobs' = n
          /\ max_workers' = MaxWorkers(n)
    /\ probes' = [k \in 1..Len(ids) |-> NewProbe]
    /\ pf' = "collect"
    /\ UNCHANGED <<obsVars, nameVars, fileVars, th, seqVars, cpu_count, manyVars,
                   urls, paths, refresh, dt, futures, queue, attempts, reported,
                   listing, all_file_urls, bf, filtered_rows, probed_rows>>

\* A pool worker takes the oldest pending call.
ProbeStart(k) ==
    /\ pf \in {"collect", "exit"}
    /\ k \in 1..Len(probes)
    /\ probes[k].state = "pending"
    /\ \A j \in 1..(k - 1) : probes[j].state # "pending"
    /\ Cardinality({j \in 1..Len(probes) : probes[j].state = "running"}) < max_workers
    /\ probes' = [probes EXCEPT ![k].state = "running"]
    /\ UNCHANGED <<obsVars, nameVars, fileVars, th, seqVars, poolVars, manyVars, batchVars,
                   listing, all_file_urls, bf, filtered_rows, pf, probed_rows>>

\* check_station returns or raises; the worker completes the future.
ProbeFinish(k) ==
    /\ k \in 1..Len(probes)
    /\ probes[k].state = "running"
    /\ \E failAt \in {0} \cup (start_year..end_year) :
          probes' = [probes EXCEPT ![k].state = "done",
                                   ![k].res = check_station(ids[k], start_year, failAt)]
    /\ UNCHANGED <<obsVars, nameVars, fileVars, th, seqVars, poolVars, manyVars, batchVars,
                   listing, all_file_urls, bf, filtered_rows, pf, probed_rows>>

\* One pass of "for future in as_completed(future_to_row)":
\* observations_files_available = future.result() stands outside any try, so
\* the exception of the call leaves the loop and the with-block.
CollectProbe(k) ==
    /\ pf = "collect"
    /\ k \in 1..Len(probes)
    /\ probes[k].state = "done"
    /\ ~probes[k].collected
    /\ probes' = [probes EXCEPT ![k].collected = TRUE]
    /\ pf' = IF probes[k].res = "raised" THEN "exit" ELSE "collect"
    /\ probed_rows' = IF probes[k].res = "True" THEN Append(probed_rows, k) ELSE probed_rows
    /\ UNCHANGED <<obsVars, nameVars, fileVars, th, seqVars, poolVars, manyVars, batchVars,
                   listing, all_file_urls, bf, filtered_rows>>

\* The with-block's shutdown(wait=True) has joined the workers; the exception
\* leaves filter_by_data_availability and filtered_rows is lost.
RaiseProbeError ==
    /\ pf = "exit"
    /\ \A k \in 1..Len(probes) : probes[k].state = "done"
    /\ pf' = "raised"
    /\ UNCHANGED <<obsVars, nameVars, fileVars, th, seqVars, poolVars, manyVars, batchVars,
                   listing, all_file_urls, bf, filtered_rows, probes, probed_rows>>

\* as_completed is exhausted: return Stations(station_metadata).
ReturnProbed ==
    /\ pf = "collect"
    /\ \A k \in 1..Len(probes) : probes[k].collected
    /\ pf' = "returned"
    /\ UNCHANGED <<obsVars, nameVars, fileVars, th, seqVars, poolVars, manyVars, batchVars,
                   listing, all_file_urls, bf, filtered_rows, probes, probed_rows>>

NextProbe ==
    \/ NextBulk
    \/ SubmitProbes
    \/ \E k \in 1..MaxStations : ProbeStart(k)
    \/ \E k \in 1..MaxStations : ProbeFinish(k)
    \/ \E k \in 1..MaxStations : CollectProbe(k)
    \/ RaiseProbeError
    \/ ReturnProbed

SpecProbe == InitProbe /\ [][NextProbe]_vars

\* ---------------------- SpecRead: stations.Stations.read_station_observations
\* Stations.var_names: the variables of a row, columns 4 to 11 of the file.
var_names == <<"T", "TD", "SLP", "WD", "WS", "SKY", "PREC1H", "PREC6H">>

\* The column of the file that holds the variable at position k of var_names:
\* columns 0 to 3 hold year, month, day and hour.
Column(k) == k + 3

\* cols = [4, 5, 6, 8, 10, 11], the columns multiplied by 0.1.
ScaledColumns == {4, 5, 6, 8, 10, 11}

\* range(10, 12), the columns in which -1 stands for trace precipitation.
TraceColumns == 10..11

\* The default of the argument missing_value.
DefaultMissingValue == -9999

\* A cell of a frame: NaN, or a number. Numbers of decoded frames are counted
\* in tenths, so that 0.1 * x and x are both whole numbers of the model.
NaN == [nan |-> TRUE, tenths |-> 0]
Tenths(n) == [nan |-> FALSE, tenths |-> n]

\* pd.read_csv(..., na_values=missing_value, dtype=np.float32): a cell whose
\* text is the missing value is read as NaN, any other as its number.
ReadCsv(v, mv) == IF v = mv THEN [nan |-> TRUE, x |-> 0] ELSE [nan |-> FALSE, x |-> v]

\* mask = col == -1; df.iloc[mask, jj] = 0 for jj in range(10, 12).
RemoveTrace(col, c) ==
    IF col \in TraceColumns /\ ~c.nan /\ c.x = -1 THEN [nan |-> FALSE, x |-> 0] ELSE c

\* Variant: 0.1 is applied to every column.
ScaleAllColumns(col, c) == IF c.nan THEN NaN ELSE Tenths(c.x)

\* df.iloc[:, cols] = 0.1 * df.iloc[:, cols]; the other columns stay.
Scale(col, c) ==
    IF c.nan THEN NaN
    ELSE IF col \in ScaledColumns THEN Tenths(c.x) ELSE Tenths(10 * c.x)

\* The row of the frame made from a row of the file. The data columns of a
\* row of the model all hold the same raw value.
DecodeRow(rec, mv) ==
    [time |-> rec.time,
     val  |-> [k \in 1..Len(var_names) |->
                  Scale(Column(k), RemoveTrace(Column(k), ReadCsv(rec.raw, mv)))]]

\* data_dir / ncei.ISDLite_data_file_name(year, usaf_id, wban_id)
FilePath(y, usaf_id, wban_id) == LocalPath(ISDLite_data_file_name(y, usaf_id, wban_id))

\* Variant: the existence of the file is not looked at.
ExistsAlways(file_path) == TRUE

\* file_path.exists()
Exists(file_path) == files[file_path].exists

\* The frame read from one file, its rows in file order.
ReadFile(file_path, mv) ==
    [j \in 1..Len(files[file_path].rows) |-> DecodeRow(files[file_path].rows[j], mv)]

\* read_station_observations from year y on, acc the frames of the years
\* before: raises at the first year whose file is absent, and returns the
\* concatenation of the frames in year order otherwise.
RECURSIVE read_station_observations(_, _, _, _, _)
read_station_observations(y, usaf_id, wban_id, mv, acc) ==
    IF y > end_year THEN [raised |-> FALSE, df |-> acc]
    ELSE IF ~Exists(FilePath(y, usaf_id, wban_id)) THEN [raised |-> TRUE, df |-> <<>>]
    ELSE read_station_observations(y + 1, usaf_id, wban_id, mv,
                                   acc \o ReadFile(FilePath(y, usaf_id, wban_id), mv))

\* The raw values the rows of the files are drawn from.
RawValues == {DefaultMissingValue, -1, 0, 7}

\* The values callers pass as missing_value.
MissingValues == {DefaultMissingValue, -1, 0}

\* The hours the rows of the files are stamped with.
Times == 1..MaxTime

\* The files of data_dir that hold the rows of the list recs, each file with
\* its rows in the order of recs. A file has at least one row.
FilesOf(recs) ==
    [p \in AllPaths |->
        LET mine == SelectSeq(recs, LAMBDA r : r.path = p) IN
        [exists |-> mine # <<>>,
         rows   |-> [j \in 1..Len(mine) |-> [time |-> mine[j].time, raw |-> mine[j].raw]]]]

\* The state of the variables other than those of the reader.
ReaderStart ==
    /\ year = 0
    /\ dm = "none"
    /\ all_local_file_paths = <<>>
    /\ batchYears = <<>>
    /\ run = 0
    /\ firstRun = <<>>
    /\ runLog = <<>>
    /\ remote = [u \in AllUrls |-> 1]
    /\ n_jobs = 1
    /\ cpu_count = 1
    /\ max_workers = 0
    /\ DownloadUnused
    /\ NamesUnused
    /\ AvailUnused
    /\ dfs = <<>>
    /\ observations = <<>>

\* read_station_observations(data_dir, start_year, end_year, usaf_id, wban_id,
\* missing_value) is called for the station ids[1]; data_dir holds at most
\* MaxRecords rows in the files of that station, row i stamped with hour i.
InitRead ==
    /\ ReaderStart
    /\ \E s \in StationIds : ids = <<s>>
    /\ start_year \in Years
    /\ end_year \in Years
    /\ start_year <= end_year
    /\ missing_value \in MissingValues
    /\ lo = "call"
    /\ \E n \in 0..MaxRecords :
          \E recs \in [1..n -> [y : Years, raw : RawValues]] :
              files = FilesOf([i \in 1..n |->
                                  [path |-> FilePath(recs[i].y, ids[1][1], ids[1][2]),
                                   time |-> i, raw |-> recs[i].raw]])

\* The call returns the frame or raises.
CallRead ==
    /\ lo = "call"
    /\ LET r == read_station_observations(start_year, ids[1][1], ids[1][2],
                                          missing_value, <<>>) IN
          /\ lo' = IF r.raised THEN "raised" ELSE "read"
          /\ dfs' = IF r.raised THEN dfs ELSE <<r.df>>
    /\ UNCHANGED <<missing_value, files, observations, nameVars, availVars, fileVars, th,
                   seqVars, poolVars, manyVars, batchVars>>

NextRead == CallRead

SpecRead == InitRead /\ [][NextRead]_vars

\* ------------------------------ SpecLoad: stations.Stations.load_observations
\* Stations.column_names: the columns of self.meta_data.
column_names == {"USAF", "WBAN", "STATION_NAME", "CTRY", "ST", "CALL", "LAT", "LON",
                 "ELEV", "BEGIN", "END", "STATION_ID"}

\* The row of self.meta_data of the station id: its two codes, and in every
\* other column a value that names the column and the station.
MetaRow(id) ==
    [c \in column_names |->
        IF c = "USAF" THEN id[1]
        ELSE IF c = "WBAN" THEN id[2]
        ELSE <<c>> \o id[1] \o <<"-">> \o id[2]]

\* load_observations(data_dir, start_year, end_year) is entered: the rows of
\* self.meta_data are the stations ids, data_dir holds at most MaxRecords
\* rows in the files of these stations and years, row i with raw value i.
InitLoad ==
    /\ ReaderStart
    /\ ids \in IdLists
    /\ ids # <<>>
    /\ start_year \in Years
    /\ end_year \in Years
    /\ start_year <= end_year
    /\ Len(ids) * Cardinality(start_year..end_year) <= MaxFiles
    /\ missing_value = DefaultMissingValue
    /\ lo = "rows"
    /\ \E n \in 0..MaxRecords :
          \E recs \in [1..n -> [k : 1..Len(ids), y : start_year..end_year, time : Times]] :
              files = FilesOf([i \in 1..n |->
                                  [path |-> FilePath(recs[i].y, ids[recs[i].k][1],
                                                     ids[recs[i].k][2]),
                                   time |-> recs[i].time, raw |-> i]])

\* One pass of "for row in self.meta_data.itertuples()": the frame of the
\* station is appended to dfs, or read_station_observations raises.
ReadRow ==
    /\ lo = "rows"
    /\ Len(dfs) < Len(ids)
    /\ LET row == MetaRow(ids[Len(dfs) + 1])
           r   == read_station_observations(start_year, row["USAF"], row["WBAN"],
                                            missing_value, <<>>) IN
          /\ lo' = IF r.raised THEN "raised" ELSE lo
          /\ dfs' = IF r.raised THEN dfs ELSE Append(dfs, r.df)
    /\ UNCHANGED <<missing_value, files, observations, nameVars, availVars, fileVars, th,
                   seqVars, poolVars, manyVars, batchVars>>

\* df.index: the time stamps of a frame in row order.
Index(df) == [j \in 1..Len(df) |-> df[j].time]

\* The number of times t stands in the index idx.
Count(idx, t) == Cardinality({j \in 1..Len(idx) : idx[j] = t})

Max(a, b) == IF a > b THEN a ELSE b

\* The time stamps a row can carry.
TimeValues == 1..Max(MaxTime, MaxRecords)

\* sort_values() of an index in which t stands c[t] times, from t on.
RECURSIVE SortValues(_, _)
SortValues(c, t) ==
    IF t \notin TimeValues THEN <<>>
    ELSE [j \in 1..c[t] |-> t] \o SortValues(c, t + 1)

\* all_times.union(df.index) for the frames from position i on, c counting
\* the labels united so far: pandas keeps a label as often as it stands in
\* the index that repeats it most.
RECURSIVE UnionCounts(_, _)
UnionCounts(i, c) ==
    IF i > Len(dfs) THEN c
    ELSE UnionCounts(i + 1, [t \in TimeValues |-> Max(c[t], Count(Index(dfs[i]), t))])

\* all_times after lines 752-756.
AllTimes == SortValues(UnionCounts(1, [t \in TimeValues |-> 0]), 1)

IsUnique(idx) == \A t \in TimeValues : Count(idx, t) <= 1

\* pd.Series(df[var].values, index=times).reindex(all_times) raises for an
\* index with repeated labels, unless the index is all_times itself.
ReindexRaises(df, target) == Index(df) # target /\ ~IsUnique(Index(df))

\* Variant: a label the frame does not have is filled with zero.
ReindexFillZero(df, target, k) ==
    IF Index(df) = target THEN [r \in 1..Len(target) |-> df[r].val[k]]
    ELSE [r \in 1..Len(target) |->
             IF \E j \in 1..Len(df) : df[j].time = target[r]
             THEN df[CHOOSE j \in 1..Len(df) : df[j].time = target[r]].val[k]
             ELSE Tenths(0)]

\* The values of s.reindex(all_times) for variable k when it does not raise:
\* the value of the frame at each label, NaN at a label the frame lacks.
Reindex(df, target, k) ==
    IF Index(df) = target THEN [r \in 1..Len(target) |-> df[r].val[k]]
    ELSE [r \in 1..Len(target) |->
             IF \E j \in 1..Len(df) : df[j].time = target[r]
             THEN df[CHOOSE j \in 1..Len(df) : df[j].time = target[r]].val[k]
             ELSE NaN]

\* Variant: the lists of the station columns are built in the reverse order
\* of the rows.
StationArrayReversed(c) == [i \in 1..Len(ids) |-> MetaRow(ids[Len(ids) + 1 - i])[c]]

\* The list the row loop collects for column c of self.meta_data.
StationArray(c) == [i \in 1..Len(ids) |-> MetaRow(ids[i])[c]]

\* xr.Dataset(data_vars, coords={'time': all_times, 'station': station_ids})
\* followed by ds.assign of the station columns.
Dataset ==
    [time    |-> AllTimes,
     station |-> StationArray("STATION_ID"),
     data    |-> [k \in 1..Len(var_names) |->
                     [r \in 1..Len(AllTimes) |->
                         [i \in 1..Len(dfs) |-> Reindex(dfs[i], AllTimes, k)[r]]]],
     columns |-> [c \in column_names |-> StationArray(c)]]

\* Lines 750-852: the frames of all stations are joined into self.observations,
\* or reindex raises.
Consolidate ==
    /\ lo = "rows"
    /\ Len(dfs) = Len(ids)
    /\ IF \E i \in 1..Len(dfs) : ReindexRaises(dfs[i], AllTimes)
       THEN lo' = "reindex_raised" /\ UNCHANGED observations
       ELSE lo' = "loaded" /\ observations' = Dataset
    /\ UNCHANGED <<missing_value, files, dfs, nameVars, availVars, fileVars, th,
                   seqVars, poolVars, manyVars, batchVars>>

NextLoad ==
    \/ ReadRow
    \/ Consolidate

SpecLoad == InitLoad /\ [][NextLoad]_vars

\* ===================================================== properties, Spec
\* The call that thread 0 has just finished (returned or raised).
Done == th[0].pc = "done"

\* The HEAD request of the finished call was answered with an ETag.
GotTag == Done /\ th[0].etag.some

\* A sidecar, when present, stands beside a complete payload and holds the
\* tag of the version stored in it.
SidecarOK(pay, side) ==
    side.exists => (Complete(pay) /\ side.text = ETagOf(pay.ver))

\* C1: sidecar invariant. Whenever a download_file call ends (by return or by
\* an exception at any step) and the sidecar was consistent when the call
\* began, the sidecar is consistent again: it exists only beside a completely
\* written payload and holds that payload's tag. Stated for the calls during
\* which the provider did not touch the resource.
C1_SidecarInvariant ==
    (Done /\ ~th[0].env /\ SidecarOK(th[0].prePayload, th[0].preSidecar))
        => SidecarOK(payload[ThePath], sidecar[ThePath])

\* C2: after a call whose body transfer was interrupted no sidecar exists for
\* the path, and the next call with refresh=False that obtains a tag issues a
\* GET instead of skipping, whatever the cache held before.
C2_InterruptedLeavesNoSidecar ==
    /\ (Done /\ th[0].out = "interrupted") => ~sidecar[ThePath].exists
    /\ (GotTag /\ prev.out = "interrupted" /\ ~th[0].refresh)
           => (th[0].gets = 1 /\ th[0].out # "skipped")

\* The first two calls of the run both succeeded, both with refresh=False, and
\* nothing outside them touched the resource or the cache.
TwoQuietCalls ==
    /\ Done
    /\ calls = 2
    /\ ~prev.refresh /\ ~th[0].refresh
    /\ prev.out \in Succeeded /\ th[0].out \in Succeeded
    /\ ~prev.env /\ ~th[0].env

\* C3: idempotence. From an empty cache, two consecutive successful calls with
\* refresh=False and an unchanged remote issue exactly one GET in total: the
\* first downloads, the second issues its HEAD only and is skipped.
C3_Idempotent ==
    TwoQuietCalls =>
        /\ prev.gets + th[0].gets = 1
        /\ prev.out = "downloaded"
        /\ th[0].out = "skipped"
        /\ th[0].heads = 1
        /\ th[0].gets = 0

C3_Witness == TwoQuietCalls /\ th[0].out = "skipped"

\* C4: a call with refresh=True whose HEAD returned a tag always issues the
\* GET, also when payload and sidecar exist and the stored tag is the remote tag.
C4_ForcedRefetch ==
    (GotTag /\ th[0].refresh) => (th[0].gets = 1 /\ th[0].out # "skipped")

C4_Witness ==
    /\ GotTag /\ th[0].refresh
    /\ Complete(th[0].prePayload)
    /\ th[0].preSidecar.exists
    /\ th[0].preSidecar.text = th[0].etag.text
    /\ th[0].out = "downloaded"

\* C5: when the HEAD response carries no ETag the call raises the not-found
\* exception without issuing a GET, and payload and sidecar are what they
\* were when the call began, for either value of refresh.
C5_NoTagNoEffect ==
    (Done /\ th[0].heads = 1 /\ th[0].out # "head_error" /\ ~th[0].etag.some)
        => /\ th[0].out = "no_etag"
           /\ th[0].gets = 0
           /\ payload[ThePath] = th[0].prePayload
           /\ sidecar[ThePath] = th[0].preSidecar

C5_Witness ==
    /\ Done /\ th[0].out = "no_etag" /\ th[0].refresh
    /\ Complete(th[0].prePayload) /\ th[0].preSidecar.exists
    /\ payload[ThePath] = th[0].prePayload
    /\ sidecar[ThePath] = th[0].preSidecar

\* The cache state in which a call with refresh=False may skip.
Cached(pay, side, etag) ==
    pay.exists /\ side.exists /\ side.text = etag.text

\* C6: a call with refresh=False is skipped only when payload and sidecar
\* both exist and the stored tag equals the remote tag; in every other cache
\* state it issues the GET, whatever the payload file holds.
C6_SkipOnlyWhenCached ==
    (GotTag /\ ~th[0].refresh
        /\ ~Cached(th[0].prePayload, th[0].preSidecar, th[0].etag))
        => (th[0].gets = 1 /\ th[0].out # "skipped")

C6_Witness ==
    /\ GotTag /\ ~th[0].refresh
    /\ ~th[0].prePayload.exists
    /\ th[0].preSidecar.exists
    /\ th[0].preSidecar.text = th[0].etag.text
    /\ th[0].gets = 1

\* C7: after a call that completed its body transfer the sidecar holds exactly
\* the tag its HEAD returned, and the next call with refresh=False against the
\* unchanged remote is skipped.
C7_SidecarHoldsTag ==
    /\ (Done /\ th[0].out = "downloaded")
           => sidecar[ThePath] = [exists |-> TRUE, text |-> th[0].etag.text]
    /\ (Done /\ prev.out = "downloaded" /\ ~prev.env /\ ~th[0].env
             /\ ~th[0].refresh /\ th[0].out # "head_error")
           => th[0].out = "skipped"

C7_Witness ==
    /\ Done /\ prev.out = "downloaded" /\ ~prev.env /\ ~th[0].env
    /\ th[0].out = "skipped"
    /\ sidecar[ThePath].text = th[0].etag.text

\* ================================================ properties, SpecBatch
SameLengths == Len(urls) = Len(paths)

InProgress == {t \in 1..MaxJobs : th[t].pc # "idle"}

\* C8: batch partial failure. With lists of equal length download_threaded
\* never raises and can only stop by returning; no item is attempted or
\* reported more than once; when it returns every item was attempted exactly
\* once, each failed item was reported exactly once and no other item was.
C8_BatchPartialFailure ==
    /\ SameLengths => dt # "raised"
    /\ (SameLengths /\ ~ENABLED NextBatch) => dt = "returned"
    /\ \A i \in Items : attempts[i] <= 1 /\ reported[i] <= 1
    /\ dt = "returned" =>
           \A i \in 1..Len(urls) :
               /\ attempts[i] = 1
               /\ futures[i].state = "finished"
               /\ futures[i].out \in Succeeded \cup Failed
               /\ reported[i] = IF futures[i].out \in Failed THEN 1 ELSE 0

C8_Witness ==
    /\ dt = "returned"
    /\ \E i, j, k \in 1..Len(urls) :
          /\ futures[i].out \in {"head_error", "no_etag"}
          /\ futures[j].out \in {"get_error", "bad_status", "interrupted"}
          /\ futures[k].out = "downloaded"
          /\ reported[i] = 1 /\ reported[j] = 1 /\ reported[k] = 0

\* C9: with lists of different lengths download_threaded raises before any
\* work: nothing is submitted, no worker runs, no request is issued and no
\* local file is created or modified.
C9_LengthMismatchRejected ==
    ~SameLengths =>
        /\ dt \in {"start", "raised"}
        /\ (~ENABLED NextBatch => dt = "raised")
        /\ futures = <<>> /\ queue = <<>>
        /\ InProgress = {}
        /\ \A i \in Items : attempts[i] = 0
        /\ \A p \in Items : ~payload[p].exists /\ ~sidecar[p].exists

C9_Witness == dt = "raised" /\ Len(urls) = 2 /\ Len(paths) = 1 /\ remote[1] = 1

\* C10: at every moment of a batch with n_jobs = c at most c download_file
\* calls are in progress, however many items the batch has.
C10_AtMostNJobs == Cardinality(InProgress) <= n_jobs

C10_Witness ==
    /\ Cardinality(InProgress) = n_jobs
    /\ queue # <<>>
    /\ \A t \in InProgress : th[t].pc \in {"get", "open", "write"}

\* ================================================ properties, SpecDefault
\* The executor of the current download_threaded call exists.
ExecutorCreated == dt \in {"submit", "collect", "returned"}

\* C11: a caller that does not choose a concurrency (n_jobs omitted, or None)
\* gets an executor of at most 8 workers, hence at most 8 concurrent fetches.
C11_DefaultAtMostEight == ExecutorCreated => max_workers <= DefaultNJobs

\* ================================================= properties, SpecMany
\* The years of range(start_year, end_year + 1) before year y, in order.
RECURSIVE YearsBefore(_)
YearsBefore(y) ==
    IF y <= start_year THEN <<>> ELSE Append(YearsBefore(y - 1), y - 1)

Range(f) == {f[k] : k \in DOMAIN f}

DisjointWrites ==
    \A t1 \in InProgress, t2 \in InProgress : t1 # t2 => th[t1].path # th[t2].path

\* The (USAF, WBAN) pairs of the list ids are pairwise distinct.
DistinctIds == \A j \in 1..Len(ids), k \in 1..Len(ids) : j # k => ids[j] # ids[k]

\* C13 as stated: for every station list a caller can pass the destination
\* paths of the items in flight at the same time are pairwise distinct.
C13_DisjointWritesAnyList == DisjointWrites

\* C13, amended: when the station list names no station twice, the
\* destination paths of the items in flight at the same time are pairwise
\* distinct, so no two running workers write the same payload or sidecar.
C13_DisjointWrites == DistinctIds => DisjointWrites

C13_Witness ==
    /\ DistinctIds
    /\ \E t1 \in InProgress, t2 \in InProgress :
          /\ t1 # t2
          /\ th[t1].pc = "write" /\ th[t2].pc = "write"
          /\ th[t1].path # th[t2].path

\* ================================================ properties, SpecRerun
\* The second call has returned after a first call in which some item failed.
RerunDone ==
    /\ run = 2
    /\ dm = "returned"
    /\ \E k \in 1..Len(firstRun) : firstRun[k].out \in Failed

\* The download_file call of the second run for item k obtained the remote tag.
RerunGotTag(k) == runLog[k].out \notin {"head_error", "no_etag"}

\* The local copy of item k is complete and its sidecar holds the remote tag.
ValidCopy(k) ==
    LET p == BatchPaths(start_year)[k] IN
    /\ Complete(payload[p])
    /\ sidecar[p] = [exists |-> TRUE, text |-> ETagOf(payload[p].ver)]
    /\ payload[p].ver = remote[BatchUrls(start_year)[k]]

\* C14: when the batch is run again with refresh=False after a run in which
\* some items failed, and the remote is unchanged, the second run issues no GET
\* for an item the first run downloaded, and issues a GET for every item the
\* first run did not complete, the items whose transfer stopped part-way
\* included. Stated for the items whose HEAD request is answered in the second
\* run; an item that failed in the first run before its valid local copy was
\* touched needs no transfer.
C14_RerunCompletesBatch ==
    RerunDone =>
        \A k \in 1..Len(firstRun) :
            /\ firstRun[k].out = "downloaded" => runLog[k].gets = 0
            /\ (firstRun[k].out \in Failed /\ RerunGotTag(k))
                   => (runLog[k].gets = 1 \/ ValidCopy(k))

\* ================================================= properties, SpecHang
\* C15: every network call of download_file is bounded by a timeout, so a
\* download_threaded batch comes to its end even when the server never answers
\* a request: the batch can stop only by returning or by raising.
C15_BatchTerminates == ~ENABLED NextHang => dt \in {"returned", "raised"}

\* ================================================ properties, SpecNames
\* Both file names and both URLs have been built.
NamesBuilt == names # <<>>

\* C16: ISDLite_data_file_name is injective: distinct keys (year, usaf, wban)
\* over the station codes and years get distinct file names; isdlite_data_url
\* gives distinct keys distinct URLs, and the last path segment of the URL of
\* a key is the file name of that key.
C16_NamesInjective ==
    NamesBuilt =>
        /\ keyA # keyB => (names[1] # names[2] /\ names[3] # names[4])
        /\ LastSegment(names[3]) = names[1]
        /\ LastSegment(names[4]) = names[2]

\* Two keys of the same year whose codes differ and read the same when joined.
C16_Witness ==
    /\ NamesBuilt
    /\ keyA # keyB
    /\ keyA.year = keyB.year
    /\ keyA.usaf_id \o keyA.wban_id = keyB.usaf_id \o keyB.wban_id
    /\ names[1] # names[2]

\* ================================================= properties, SpecBulk
\* The URL of the file of row k of the station table for year y.
RowUrl(k, y) == isdlite_data_url(y, ids[k][1], ids[k][2])

\* Every year of the range has the file of row k among the collected URLs.
Listed(k) == \A y \in start_year..end_year : RowUrl(k, y) \in all_file_urls

Increasing(rows) == \A a \in 1..Len(rows), b \in 1..Len(rows) : a < b => rows[a] < rows[b]

\* C17: the bulk filter keeps a station if and only if, for every year of the
\* range, its URL is in the set of file URLs extracted from the listings, and
\* the kept stations stand in the order of the input.
C17_BulkFilter ==
    bf = "returned" =>
        /\ \A k \in 1..Len(ids) : (k \in Range(filtered_rows)) <=> Listed(k)
        /\ Range(filtered_rows) \subseteq 1..Len(ids)
        /\ Increasing(filtered_rows)

\* One station is kept and one that lacks the first year only is dropped.
C17_Witness ==
    /\ bf = "returned"
    /\ start_year < end_year
    /\ \E j \in 1..Len(ids), k \in 1..Len(ids) :
          /\ j \in Range(filtered_rows)
          /\ k \notin Range(filtered_rows)
          /\ RowUrl(k, start_year) \notin all_file_urls
          /\ RowUrl(k, end_year) \in all_file_urls

\* The listing request of year y fails in one of the three ways.
Degraded(y) ==
    \/ listing[y].exc
    \/ listing[y].status_code >= 400
    \/ ~listing[y].html

\* The year loop of isdlite_data_urls has passed year y.
Fetched(y) == bf \in {"listing", "returned"} /\ start_year <= y /\ y < year

\* C18: a year whose listing request raises a transport error, returns a
\* status >= 400 or a content type other than HTML contributes no URL and
\* raises no error; the files of the other years are still collected; a range
\* that holds such a year leaves no station in the result.
C18_ListingDegradation ==
    /\ start_year <= end_year => bf # "raised"
    /\ \A y \in Years : Degraded(y) => \A u \in all_file_urls : ~StartsWith(u, YearDir(y))
    /\ \A y \in Years : (Fetched(y) /\ ~Degraded(y)) =>
           \A s \in StationIds :
               remote[isdlite_data_url(y, s[1], s[2])] # 0
                   => isdlite_data_url(y, s[1], s[2]) \in all_file_urls
    /\ (bf = "returned" /\ \E y \in start_year..end_year : Degraded(y))
           => filtered_rows = <<>>

\* The first year answers with an index page under status 404, the second
\* year is collected, and a station whose files both exist is dropped.
C18_Witness ==
    /\ bf = "returned"
    /\ start_year < end_year
    /\ listing[start_year].status_code = 404
    /\ ~Degraded(end_year)
    /\ filtered_rows = <<>>
    /\ \E k \in 1..Len(ids) :
          /\ remote[RowUrl(k, start_year)] # 0
          /\ remote[RowUrl(k, end_year)] # 0
          /\ RowUrl(k, end_year) \in all_file_urls

\* ================================================ properties, SpecProbe
\* C19: when the index page of each year lists exactly the files that exist,
\* the per-file existence probe and the listing-membership probe give every
\* station the same answer: the two filters keep the same stations.
C19_ProbesAgree ==
    (bf = "returned" /\ pf = "returned") =>
        \A k \in 1..Len(ids) : (k \in Range(filtered_rows)) <=> (k \in Range(probed_rows))

\* Station j has both years and is kept by both filters, station k lacks the
\* second year only and is dropped by both.
C19_Witness ==
    /\ bf = "returned" /\ pf = "returned"
    /\ start_year < end_year
    /\ \E j \in 1..Len(ids), k \in 1..Len(ids) :
          /\ j \in Range(filtered_rows) /\ j \in Range(probed_rows)
          /\ k \notin Range(filtered_rows) /\ k \notin Range(probed_rows)
          /\ remote[RowUrl(k, start_year)] # 0
          /\ remote[RowUrl(k, end_year)] = 0

\* C20: a timeout or transport error raised while one station is probed does
\* not void the batch: the threaded filter does not end by raising that
\* error, so the stations whose probes gave an answer keep their decisions.
C20_ProbeErrorContained == pf # "raised"

\* ===================================== properties, Spec (second part)
\* C28: when the GET of a call is answered with a non-success status the call
\* raises before the payload file is opened: payload and sidecar are what they
\* were when the call began, and a file that did not exist is not created.
C28_BadStatusLeavesCache ==
    (Done /\ th[0].out = "bad_status") =>
        /\ th[0].gets = 1
        /\ payload[ThePath] = th[0].prePayload
        /\ sidecar[ThePath] = th[0].preSidecar

\* A forced refetch over a complete cached copy is answered with a
\* non-success status, and the copy and its sidecar are still there.
C28_Witness ==
    /\ Done /\ th[0].out = "bad_status" /\ th[0].refresh
    /\ Complete(th[0].prePayload) /\ th[0].preSidecar.exists
    /\ payload[ThePath] = th[0].prePayload
    /\ sidecar[ThePath] = th[0].preSidecar

\* The request during which a failing call left download_file.
Stage(out) == IF out \in {"head_error", "no_etag"} THEN "metadata" ELSE "body"

\* The exception a failing call raises, as its class and the text of its
\* message. Line 290 and line 334 let the exception of the requests library
\* pass unchanged: a transport error carries the same class and the same
\* text (host and path of the URL) whichever request met it. Only line 302
\* builds a message of its own, and only line 335 raises an HTTPError.
ReportedError(out) ==
    CASE out = "head_error"  -> [class |-> "requests.ConnectionError", text |-> "url"]
      [] out = "get_error"   -> [class |-> "requests.ConnectionError", text |-> "url"]
      [] out = "no_etag"     -> [class |-> "Exception", text |-> "ETag not found of file at URL"]
      [] out = "bad_status"  -> [class |-> "requests.HTTPError", text |-> "status for url"]
      [] out = "interrupted" -> [class |-> "requests.ChunkedEncodingError",
                                 text |-> "Connection broken"]

\* C27: the error a failing call reports tells which of the two requests
\* failed: two failing calls that left download_file during different
\* requests never report the same error.
C27_ErrorNamesRequest ==
    (Done /\ prev.out \in Failed /\ th[0].out \in Failed
          /\ Stage(prev.out) # Stage(th[0].out))
        => ReportedError(prev.out) # ReportedError(th[0].out)

\* C30: after a call that downloaded, the tag in the sidecar is the tag of
\* the version whose content the payload file holds, also when the provider
\* replaced the resource while the call was running.
C30_TagIdentifiesContent ==
    (Done /\ th[0].out = "downloaded") =>
        /\ Complete(payload[ThePath])
        /\ sidecar[ThePath].exists
        /\ Strip(sidecar[ThePath].text) = ETagOf(payload[ThePath].ver)

\* ===================================== properties, SpecMany (second part)
\* The paths of the year-major enumeration of (year, station).
RECURSIVE YearMajorPaths(_)
YearMajorPaths(y) ==
    IF y > end_year THEN <<>> ELSE BatchPaths(y) \o YearMajorPaths(y + 1)

\* C26: download_many returns one path per (year, station), year-major with
\* the stations in the order of ids, and every returned path is a local file
\* whose download was completed.
C26_ReturnsDownloadedFiles ==
    dm = "returned" =>
        /\ all_local_file_paths = YearMajorPaths(start_year)
        /\ \A i \in 1..Len(all_local_file_paths) :
               /\ Complete(payload[all_local_file_paths[i]])
               /\ sidecar[all_local_file_paths[i]].exists

\* =================================== properties, SpecProbe (second part)
\* C29: the threaded filter returns the kept stations in the relative order
\* of the input table, whatever the order in which the probes complete.
C29_InputOrderKept == pf = "returned" => Increasing(probed_rows)

\* ================================================= properties, SpecRead
PrecipitationFields == {"PREC1H", "PREC6H"}

ScaledFields == {"T", "TD", "SLP", "WS", "PREC1H", "PREC6H"}

\* The rows of the files of station ids[i] from year y on, in year order.
RECURSIVE RawRows(_, _)
RawRows(i, y) ==
    IF y > end_year THEN <<>>
    ELSE files[FilePath(y, ids[i][1], ids[i][2])].rows \o RawRows(i, y + 1)

\* C21: the decoding rule. For every raw value v, every field and every
\* missing_value: v equal to missing_value decodes to NaN in any field; v = -1
\* in a precipitation field decodes to 0 and not to NaN; every other v decodes
\* to v/10 in the scaled fields and to v in wind direction and sky condition.
C21_DecodingRule ==
    lo = "read" =>
        /\ Len(dfs[1]) = Len(RawRows(1, start_year))
        /\ \A j \in 1..Len(dfs[1]), k \in 1..Len(var_names) :
               LET v == RawRows(1, start_year)[j].raw
                   f == var_names[k]
                   d == dfs[1][j].val[k] IN
               /\ v = missing_value => d = NaN
               /\ (v = -1 /\ f \in PrecipitationFields) => d = Tenths(0)
               /\ (v # missing_value /\ ~(v = -1 /\ f \in PrecipitationFields))
                      => d = IF f \in ScaledFields THEN Tenths(v) ELSE Tenths(10 * v)

\* ================================================= properties, SpecLoad
\* Every file of the year range of row i of meta_data is in data_dir.
RowFilesExist(i) ==
    \A y \in start_year..end_year : files[FilePath(y, ids[i][1], ids[i][2])].exists

\* A row is read only when all its files exist, and the call raises only at
\* a row with an absent file.
ReadOnlyPresent ==
    /\ \A i \in 1..Len(dfs) : RowFilesExist(i)
    /\ lo = "raised" => ~RowFilesExist(Len(dfs) + 1)
    /\ (lo = "rows" /\ Len(dfs) < Len(ids) /\ ~RowFilesExist(Len(dfs) + 1))
           => ~ENABLED Consolidate

\* No step of the reader sends a request or touches a file.
ReadsOnly == UNCHANGED <<files, remote, payload, sidecar, th, listing, probes>>

\* C22: read_station_observations, and with it load_observations, raises the
\* missing-file error whenever the file of a year of the range is absent for
\* the station, and no step of it issues a request or creates a local file.
C22_MissingArchive == []ReadOnlyPresent /\ [][ReadsOnly]_vars

\* The file of the first year is there, the file of the last year is not.
C22_Witness ==
    /\ lo = "raised"
    /\ start_year < end_year
    /\ files[FilePath(start_year, ids[Len(dfs) + 1][1], ids[Len(dfs) + 1][2])].exists
    /\ ~files[FilePath(end_year, ids[Len(dfs) + 1][1], ids[Len(dfs) + 1][2])].exists

\* The time stamps of all frames.
AllStamps == UNION {{dfs[i][j].time : j \in 1..Len(dfs[i])} : i \in 1..Len(dfs)}

\* All files were present and the frames of all stations were to be joined.
Joined == lo \in {"loaded", "reindex_raised"}

\* C23: for every non-empty list of frames, also with a time stamp that
\* stands more than once in one frame, the time axis is the set union of the
\* time stamps, strictly ascending, and every field array has one row per
\* distinct time stamp and one column per station.
C23_TimeAxis ==
    Joined =>
        /\ lo = "loaded"
        /\ Range(observations.time) = AllStamps
        /\ Increasing(observations.time)
        /\ \A k \in 1..Len(var_names) :
               /\ Len(observations.data[k]) = Cardinality(AllStamps)
               /\ \A r \in 1..Len(observations.data[k]) :
                      Len(observations.data[k][r]) = Len(ids)

\* The values of variable k in the rows of frame df stamped t.
ValuesAt(df, t, k) == {df[j].val[k] : j \in {j \in 1..Len(df) : df[j].time = t}}

\* C24: in the dataset, the cell of a field at time t and station s is the
\* value of that field in a row of the frame of s stamped t when there is
\* such a row, and NaN otherwise.
C24_CellsOwnOrNaN ==
    lo = "loaded" =>
        \A k \in 1..Len(var_names), r \in 1..Len(observations.time), i \in 1..Len(dfs) :
            LET own == ValuesAt(dfs[i], observations.time[r], k) IN
            IF own # {} THEN observations.data[k][r][i] \in own
            ELSE observations.data[k][r][i] = NaN

\* Two stations, and a time at which one has a row and the other has none.
C24_Witness ==
    /\ lo = "loaded"
    /\ Len(dfs) = 2
    /\ \E r \in 1..Len(observations.time), i \in 1..2 :
          /\ observations.data[1][r][i] = NaN
          /\ observations.data[1][r][3 - i] # NaN
          /\ observations.data[1][r][3 - i] # Tenths(0)

\* C25: the station axis is ordered as the rows of meta_data: column i of
\* every field array holds values of the files of row i only, and entry i of
\* the station coordinate and of every station column is the value of row i.
C25_StationOrder ==
    lo = "loaded" =>
        \A i \in 1..Len(ids) :
            /\ observations.station[i] = MetaRow(ids[i])["STATION_ID"]
            /\ \A c \in column_names : observations.columns[c][i] = MetaRow(ids[i])[c]
            /\ \A k \in 1..Len(var_names), r \in 1..Len(observations.time) :
                   ~observations.data[k][r][i].nan =>
                       \E j \in 1..Len(RawRows(i, start_year)) :
                           /\ RawRows(i, start_year)[j].time = observations.time[r]
                           /\ DecodeRow(RawRows(i, start_year)[j], DefaultMissingValue).val[k]
                                  = observations.data[k][r][i]

\* Two different stations, each with a value in its column.
C25_Witness ==
    /\ lo = "loaded"
    /\ Len(ids) = 2
    /\ ids[1] # ids[2]
    /\ observations.station[1] # observations.station[2]
    /\ \A i \in 1..2 : \E r \in 1..Len(observations.time) : ~observations.data[1][r][i].nan

====
